---------------------------- MODULE Spec2Model ----------------------------
(***************************************************************************)
(* A model of the Mares Icon HD backend (src/src/mares_iconhd.c):          *)
(*   - the chunked I/O adapter   mares_iconhd_read / mares_iconhd_write    *)
(*   - the packet codec          mares_iconhd_packet                       *)
(*   - the retry engine          mares_iconhd_transfer                     *)
(*   - the fingerprint setter    mares_iconhd_device_set_fingerprint       *)
(*   - the dive enumerator       mares_iconhd_device_foreach               *)
(* Every transport call (dc_iostream_read / dc_iostream_write) is one step *)
(* whose outcome (status, transferred bytes) is chosen by the environment. *)
(***************************************************************************)
EXTENDS Integers, Sequences, FiniteSets, TLC

(***************************************************************************)
(* Bounds of the model.                                                    *)
(***************************************************************************)
\* longest answer a modelled transfer() asks for (SpecXfer)
MaxASize == 1
\* longest frame / stream read the transport delivers in SpecXfer
MaxFrame == 2
\* number of bytes the transport delivers at most in SpecRead
MaxWire == 102
\* the count of transport calls of one packet() saturates here
MaxIoCalls == 1
\* number of records the device memory holds at most (SpecEnum)
MaxDives == 3

(***************************************************************************)
(* Program constants.                                                      *)
(***************************************************************************)
MAXRETRIES == 4
ACK == 170
EOF == 234
CacheSize == 20

DC_STATUS_SUCCESS   == "SUCCESS"
DC_STATUS_TIMEOUT   == "TIMEOUT"
DC_STATUS_IO        == "IO"
DC_STATUS_PROTOCOL  == "PROTOCOL"
DC_STATUS_CANCELLED == "CANCELLED"

DC_TRANSPORT_BLE    == "BLE"
DC_TRANSPORT_SERIAL == "SERIAL"

VARIABLES
    transport,   \* dc_iostream_get_transport (device->iostream)
    device,      \* mares_iconhd_device_t: cache, available, offset
    cancelled,   \* what device_is_cancelled answered at the last poll
    pc,          \* position of the running call
    csize,       \* transfer(): size of the command
    asize,       \* transfer(): size of the answer
    nretries,    \* transfer(): retry counter
    rc,          \* status returned by the last packet() / adapter call
    size,        \* adapter loop: requested size
    nbytes,      \* adapter loop: bytes transferred so far
    data,        \* adapter read: destination bytes data[0 .. nbytes)
    answer,      \* packet(): the caller's answer buffer
    result,      \* status returned by transfer()
    attempts,    \* packet() calls of the running transfer()
    purges,      \* dc_iostream_purge calls of the running transfer()
    stale,       \* cached bytes older than the last purge: held, handed out
    spins,       \* adapter loop: iterations in a row that moved no byte, mod 2
    iocalls,     \* transport read/write calls of the running packet()
    wire,        \* bytes the transport delivered into the cache (in order)
    out,         \* bytes the adapter copied to its callers (in order)
    fpsize,      \* size argument of the last accepted set_fingerprint
    cb,          \* foreach(): the caller passed a callback
    progress,    \* foreach(): dc_event_progress_t (current, maximum)
    eop,         \* foreach(): the end-of-profile pointer
    memreads,    \* foreach(): addresses read with mares_iconhd_device_read
    rbstream,    \* foreach(): the ring stream (state and cursor address)
    buffer,      \* foreach(): the scratch buffer (state, bytes [lo, size))
    offset,      \* foreach(): start of the newest record in the buffer
    rec,         \* foreach(): locals of the record being read
    dives,       \* records the device turned out to hold, newest first
    callbacks,   \* the calls of the dive callback, in order
    stop,        \* why the walk ended
    ret,         \* status returned by foreach() / set_fingerprint()
    mem,         \* device_read() / device_dump(): locals, commands sent
    session      \* device_open(): its position, allocation, *out, status

ioVars == <<transport, device, cancelled, pc, csize, asize, nretries, rc,
            size, nbytes, data, answer, result, attempts, purges, stale,
            spins, iocalls, wire, out>>

\* what the I/O layer uses besides pc and device
ioLocals == <<transport, cancelled, csize, asize, nretries, rc, size, nbytes,
              data, answer, result, attempts, purges, stale, spins, iocalls,
              wire, out>>

enumVars == <<fpsize, cb, progress, eop, memreads, rbstream, buffer, offset,
              rec, dives, callbacks, stop, ret>>

openVars == <<mem, session>>

vars == <<ioVars, enumVars, openVars>>

(***************************************************************************)
(* The transport (dc_iostream_t), an external collaborator.                *)
(***************************************************************************)
\* byte values the device sends in SpecXfer
Bytes == {ACK, EOF, 0}

\* statuses a failing transport call returns
IoFailures == {DC_STATUS_TIMEOUT, DC_STATUS_IO}

IoResults == {DC_STATUS_SUCCESS} \cup IoFailures

\* every byte string of length 0 .. n
BytesUpTo(n) == UNION {[1..k -> Bytes] : k \in 0..n}

\* SpecXfer: what one dc_iostream_read of at most n bytes can deliver
XferFrames(n) == BytesUpTo(IF n < MaxFrame THEN n ELSE MaxFrame)

\* SpecRead: the device sends the byte stream 0, 1, 2, 0, 1, 2, ...;
\* a frame is the next k bytes of it
Pattern(k) == k % 3

FrameLens == {0, 1, 7, CacheSize}

PatternFrames(n) ==
    {[i \in 1..k |-> Pattern(Len(wire) + i - 1)] :
        k \in {l \in FrameLens : l <= n /\ Len(wire) + l <= MaxWire}}

\* one more transport call was made (the count saturates at MaxIoCalls)
IoCount(n) == IF n < MaxIoCalls THEN n + 1 ELSE n

\* actual lengths a dc_iostream_write of length n may report: nothing,
\* half of it, all of it
WriteLens(n) == {0, n \div 2, n}

(***************************************************************************)
(* Positions.                                                              *)
(***************************************************************************)
WritePcs == {"write_hdr", "write_cmd"}
ReadPcs  == {"read_hdr", "read_ans", "read_trl", "read_req"}

\* where an adapter call returns to: packet() returns at once on failure
ReturnPc(p) == IF p = "read_req" THEN "req_idle" ELSE "packet_ret"

(***************************************************************************)
(* mares_iconhd_read: one iteration of the loop.                           *)
(***************************************************************************)
\* the cached bytes not yet handed out: cache[offset .. offset+available)
Pending(d) == [i \in 1..d.available |-> d.cache[d.offset + i]]

\* lines 165-170: a frame was read into the cache
Refill(d, frame) ==
    [d EXCEPT !.cache = [i \in 1..CacheSize |->
                            IF i <= Len(frame) THEN frame[i] ELSE d.cache[i]],
              !.available = Len(frame),
              !.offset = 0]

\* lines 175-179: the number of bytes this iteration hands out
ChunkLength(avail, sz, nb) ==
    IF nb + avail > sz THEN sz - nb ELSE avail

\* an adapter that forgets to advance the read cursor
Consume_NoAdvance(d, length) ==
    [d EXCEPT !.available = d.available - length]

\* an adapter that advances the read cursor and keeps the byte count
Consume_KeepAvailable(d, length) ==
    [d EXCEPT !.offset = d.offset + length]

\* lines 183-185: the cursors after length bytes were copied out
Consume(d, length) ==
    [d EXCEPT !.available = d.available - length,
              !.offset = d.offset + length]

\* lines 159-193, 206-220: the loop goes round again; an iteration that
\* moved no byte is counted modulo 2, one that moved bytes or left the
\* loop clears the count
Spin(s, idle) == IF idle THEN 1 - s ELSE 0

\* lines 166-167 / 189-190: the transport failed, the adapter returns rc
AdapterFail(st) ==
    /\ rc' = st
    /\ pc' = ReturnPc(pc)
    /\ iocalls' = IoCount(iocalls)
    /\ UNCHANGED <<device, nbytes, data, wire, out, stale>>

\* of the length bytes copied out of the cache, those that were in it at
\* the last purge
StaleUse(s, length) ==
    LET k == IF length < s.held THEN length ELSE s.held
    IN  [held |-> s.held - k, used |-> s.used + k]

\* lines 175-185, 193 on a frame transport, d being the session after a
\* possible refill with frame (<<>> when the cache was not empty)
CopyFromCache(d, frame, called) ==
    LET length == ChunkLength(d.available, size, nbytes)
        chunk  == [i \in 1..length |-> d.cache[d.offset + i]]
    IN  /\ device' = Consume(d, length)
        /\ data' = data \o chunk
        /\ nbytes' = nbytes + length
        /\ wire' = wire \o frame
        /\ out' = out \o chunk
        /\ iocalls' = (IF called THEN IoCount(iocalls) ELSE iocalls)
        /\ stale' = StaleUse(stale, length)
        /\ UNCHANGED <<rc, pc>>

\* what one dc_iostream_read of at most n bytes can deliver
Frames(n) == IF pc = "read_req" THEN PatternFrames(n) ELSE XferFrames(n)

mares_iconhd_read_iter ==
    /\ pc \in ReadPcs
    /\ UNCHANGED <<enumVars, openVars>>
    /\ nbytes < size
    /\ IF transport = DC_TRANSPORT_BLE
       THEN IF device.available = 0
            THEN \E st \in IoResults :
                   IF st # DC_STATUS_SUCCESS
                   THEN AdapterFail(st)
                   ELSE \E frame \in Frames(CacheSize) :
                          CopyFromCache(Refill(device, frame), frame, TRUE)
            ELSE CopyFromCache(device, <<>>, FALSE)
       ELSE \E st \in IoResults :
              IF st # DC_STATUS_SUCCESS
              THEN AdapterFail(st)
              ELSE \E chunk \in Frames(size - nbytes) :
                     /\ data' = data \o chunk
                     /\ nbytes' = nbytes + Len(chunk)
                     /\ wire' = wire \o chunk
                     /\ out' = out \o chunk
                     /\ iocalls' = IoCount(iocalls)
                     /\ UNCHANGED <<device, rc, pc, stale>>
    /\ spins' = Spin(spins, pc' = pc /\ nbytes' = nbytes)
    /\ UNCHANGED <<transport, cancelled, csize, asize, nretries, size,
                   answer, result, attempts, purges>>

(***************************************************************************)
(* mares_iconhd_write: one iteration of the loop.                          *)
(***************************************************************************)
\* lines 208-212: the length handed to dc_iostream_write
WriteLength(tr, sz, nb) ==
    LET length == IF tr = DC_TRANSPORT_BLE THEN CacheSize ELSE sz - nb
    IN  IF nb + length > sz THEN sz - nb ELSE length

mares_iconhd_write_iter ==
    /\ pc \in WritePcs
    /\ UNCHANGED <<enumVars, openVars>>
    /\ nbytes < size
    /\ \E st \in IoResults :
         IF st # DC_STATUS_SUCCESS
         THEN /\ rc' = st
              /\ pc' = ReturnPc(pc)
              /\ UNCHANGED nbytes
         ELSE \E length \in WriteLens(WriteLength(transport, size, nbytes)) :
                /\ nbytes' = nbytes + length
                /\ UNCHANGED <<rc, pc>>
    /\ iocalls' = IoCount(iocalls)
    /\ spins' = Spin(spins, pc' = pc /\ nbytes' = nbytes)
    /\ UNCHANGED <<transport, device, cancelled, csize, asize, nretries,
                   size, data, answer, result, attempts, purges, stale,
                   wire, out>>

(***************************************************************************)
(* mares_iconhd_packet                                                     *)
(***************************************************************************)
\* start an adapter call of sz bytes at position p
StartAdapter(p, sz) ==
    /\ pc' = p
    /\ size' = sz
    /\ nbytes' = 0
    /\ data' = <<>>

\* packet() returns st
PacketReturn(st) ==
    /\ pc' = "packet_ret"
    /\ rc' = st
    /\ UNCHANGED <<size, nbytes, data>>

\* lines 235-239: device_is_cancelled polls the application (c is what
\* it answers), then the first write is started
packet_enter ==
    /\ pc = "packet"
    /\ UNCHANGED <<enumVars, openVars, spins>>
    /\ iocalls' = 0
    /\ wire' = Pending(device)
    /\ out' = <<>>
    /\ \E c \in BOOLEAN :
         /\ cancelled' = c
         /\ IF c
            THEN PacketReturn(DC_STATUS_CANCELLED)
            ELSE StartAdapter("write_hdr", 2) /\ UNCHANGED rc
    /\ attempts' = attempts + 1
    /\ UNCHANGED <<transport, device, csize, asize, nretries,
                   answer, result, purges, stale>>

\* a codec that accepts any trailer byte
TrailerOk_Any(b) == TRUE

\* a codec that accepts any header byte
HeaderOk_Any(b) == TRUE

\* line 254: the header byte is the ACK marker
HeaderOk(b) == b = ACK

\* line 284: the trailer byte is the EOF marker
TrailerOk(b) == b = EOF

\* lines 240-247: the command header was written, read the header byte
packet_header_written ==
    /\ pc = "write_hdr"
    /\ UNCHANGED <<enumVars, openVars, spins>>
    /\ nbytes >= size
    /\ StartAdapter("read_hdr", 1)
    /\ UNCHANGED <<transport, device, cancelled, csize, asize, nretries, rc,
                   answer, result, attempts, purges, stale, iocalls, wire, out>>

\* lines 248-269: the header byte was read; verify it, then send the
\* payload of the command or, when there is none, read the answer
packet_header_read ==
    /\ pc = "read_hdr"
    /\ UNCHANGED <<enumVars, openVars, spins>>
    /\ nbytes >= size
    /\ IF ~HeaderOk(data[1])
       THEN PacketReturn(DC_STATUS_PROTOCOL)
       ELSE /\ IF csize > 2
               THEN StartAdapter("write_cmd", csize - 2)
               ELSE StartAdapter("read_ans", asize)
            /\ UNCHANGED rc
    /\ UNCHANGED <<transport, device, cancelled, csize, asize, nretries,
                   answer, result, attempts, purges, stale, iocalls, wire, out>>

\* lines 261-269: the payload was written, read the answer
packet_command_written ==
    /\ pc = "write_cmd"
    /\ UNCHANGED <<enumVars, openVars, spins>>
    /\ nbytes >= size
    /\ StartAdapter("read_ans", asize)
    /\ UNCHANGED <<transport, device, cancelled, csize, asize, nretries, rc,
                   answer, result, attempts, purges, stale, iocalls, wire, out>>

\* lines 270-277: the answer was read, read the trailer byte
packet_answer_read ==
    /\ pc = "read_ans"
    /\ UNCHANGED <<enumVars, openVars, spins>>
    /\ nbytes >= size
    /\ answer' = data
    /\ StartAdapter("read_trl", 1)
    /\ UNCHANGED <<transport, device, cancelled, csize, asize, nretries, rc,
                   result, attempts, purges, stale, iocalls, wire, out>>

\* lines 278-289: the trailer byte was read; verify it
packet_trailer_read ==
    /\ pc = "read_trl"
    /\ UNCHANGED <<enumVars, openVars, spins>>
    /\ nbytes >= size
    /\ IF ~TrailerOk(data[1])
       THEN PacketReturn(DC_STATUS_PROTOCOL)
       ELSE PacketReturn(DC_STATUS_SUCCESS)
    /\ UNCHANGED <<transport, device, cancelled, csize, asize, nretries,
                   answer, result, attempts, purges, stale, iocalls, wire, out>>

(***************************************************************************)
(* mares_iconhd_transfer                                                   *)
(***************************************************************************)
\* a retry engine that also retries transport failures
Retryable_Io(st) ==
    st \in {DC_STATUS_PROTOCOL, DC_STATUS_TIMEOUT, DC_STATUS_IO}

\* a retry engine that also retries after a cancellation
Retryable_Cancelled(st) ==
    st \in {DC_STATUS_PROTOCOL, DC_STATUS_TIMEOUT, DC_STATUS_CANCELLED}

\* a retry engine that compares the counter after the increment
RetriesExhausted_Late(n) == n > MAXRETRIES

\* line 300: a failure that is retried
Retryable(st) == st \in {DC_STATUS_PROTOCOL, DC_STATUS_TIMEOUT}

\* line 304: the retry budget is used up (n is nretries before the ++)
RetriesExhausted(n) == n >= MAXRETRIES

\* no cached byte is older than a purge
NoStale == [held |-> 0, used |-> 0]

\* lines 307-308: dc_iostream_purge discards the input the transport has
\* buffered; the session's cache and its cursors are not touched, so the
\* bytes the cache holds are from before the purge
Purged(d) == [held |-> d.available, used |-> 0]

\* a caller (device_open, device_read) calls transfer (c bytes, a bytes)
\* with a fresh answer buffer; the locals of the previous call are gone
transfer_call(c, a) ==
    /\ pc \in {"idle", "done"}
    /\ UNCHANGED <<enumVars, openVars, spins>>
    /\ csize' = c
    /\ asize' = a
    /\ nretries' = 0
    /\ attempts' = 0
    /\ purges' = 0
    /\ stale' = NoStale
    /\ pc' = "packet"
    /\ rc' = DC_STATUS_SUCCESS
    /\ result' = DC_STATUS_SUCCESS
    /\ size' = 0
    /\ nbytes' = 0
    /\ data' = <<>>
    /\ answer' = <<>>
    /\ UNCHANGED <<transport, device, cancelled, iocalls, wire, out>>

\* lines 297-311: packet() returned rc
transfer_loop ==
    /\ pc = "packet_ret"
    /\ UNCHANGED <<enumVars, openVars, spins>>
    /\ IF rc = DC_STATUS_SUCCESS
       THEN /\ result' = DC_STATUS_SUCCESS
            /\ pc' = "done"
            /\ UNCHANGED <<nretries, purges, stale>>
       ELSE IF ~Retryable(rc)
       THEN /\ result' = rc
            /\ pc' = "done"
            /\ UNCHANGED <<nretries, purges, stale>>
       ELSE IF RetriesExhausted(nretries)
       THEN /\ result' = rc
            /\ pc' = "done"
            /\ nretries' = nretries + 1
            /\ UNCHANGED <<purges, stale>>
       ELSE /\ nretries' = nretries + 1
            /\ purges' = purges + 1
            /\ stale' = Purged(device)
            /\ pc' = "packet"
            /\ UNCHANGED result
    /\ UNCHANGED <<transport, device, cancelled, csize, asize, rc, size,
                   nbytes, data, answer, attempts, iocalls, wire, out>>

(***************************************************************************)
(* 32-bit unsigned values (unsigned int), kept as two 16-bit halves, and   *)
(* the arithmetic modulo 2^32 the enumerator does with them.               *)
(***************************************************************************)
W16 == 256 * 256

U32(h, l) == [hi |-> h, lo |-> l]

\* n is in 0 .. 2^31 - 1
U32FromInt(n) == U32(n \div W16, n % W16)

U32Add(x, y) ==
    LET l == x.lo + y.lo
    IN  U32((x.hi + y.hi + l \div W16) % W16, l % W16)

\* k is in 0 .. 2^15
U32Mul(x, k) ==
    LET l == x.lo * k
    IN  U32((x.hi * k + l \div W16) % W16, l % W16)

U32Lt(x, y) == x.hi < y.hi \/ (x.hi = y.hi /\ x.lo < y.lo)

\* x is below 2^31, so that it is an integer of the model
U32IsInt(x) == x.hi < 128 * 256

U32ToInt(x) == x.hi * W16 + x.lo

\* 0xFFFFFFFF
AllOnes32 == U32(W16 - 1, W16 - 1)

\* 0xFFFF
AllOnes16 == W16 - 1

(***************************************************************************)
(* Byte strings as runs <<[b |-> byte, n |-> count], ...>>: a dive record  *)
(* can be half a megabyte long.                                            *)
(***************************************************************************)
Run(b, n) == IF n <= 0 THEN <<>> ELSE <<[b |-> b, n |-> n]>>

RECURSIVE RLen(_)
RLen(r) == IF r = <<>> THEN 0 ELSE r[1].n + RLen(Tail(r))

\* the byte at index i (from 0)
RECURSIVE RAt(_, _)
RAt(r, i) == IF i < r[1].n THEN r[1].b ELSE RAt(Tail(r), i - r[1].n)

LE16(v) == Run(v % 256, 1) \o Run(v \div 256, 1)

LE32(x) == LE16(x.lo) \o LE16(x.hi)

\* array.h: little-endian decoding at index i of a byte string
array_uint16_le(r, i) == RAt(r, i) + 256 * RAt(r, i + 1)

array_uint32_le(r, i) == U32(array_uint16_le(r, i + 2), array_uint16_le(r, i))

(***************************************************************************)
(* The models and their layouts.                                           *)
(***************************************************************************)
MATRIX     == 15
SMART      == 16
SMARTAPNEA == 65552
ICONHD     == 20
ICONHDNET  == 21
PUCKPRO    == 24
NEMOWIDE2  == 25
PUCK2      == 31
QUADAIR    == 35
SMARTAIR   == 36
QUAD       == 41

FREEDIVE == 3

mares_iconhd_layout ==
    [memsize |-> 1048576, rb_profile_begin |-> 40960,
     rb_profile_end |-> 1048576]

mares_iconhdnet_layout ==
    [memsize |-> 1048576, rb_profile_begin |-> 57344,
     rb_profile_end |-> 1048576]

mares_matrix_layout ==
    [memsize |-> 262144, rb_profile_begin |-> 40960,
     rb_profile_end |-> 253952]

mares_nemowide2_layout ==
    [memsize |-> 262144, rb_profile_begin |-> 40960,
     rb_profile_end |-> 262144]

\* lines 384-412: the layout device_open loads for a model
LayoutOf(model) ==
    CASE model = MATRIX -> mares_matrix_layout
      [] model \in {PUCKPRO, PUCK2, NEMOWIDE2, SMART, SMARTAPNEA, QUAD}
            -> mares_nemowide2_layout
      [] model \in {QUADAIR, SMARTAIR, ICONHDNET} -> mares_iconhdnet_layout
      [] OTHER -> mares_iconhd_layout

\* lines 384-412: the packet size device_open sets for a model
PacketSizeOf(model) ==
    CASE model \in {MATRIX, PUCKPRO, PUCK2, NEMOWIDE2, SMART, SMARTAPNEA,
                    QUAD, QUADAIR, SMARTAIR} -> 256
      [] OTHER -> 4096

FingerprintSize == 10

\* the session as device_open returns it for a detected model
OpenedDevice(model) ==
    [cache |-> [i \in 1..CacheSize |-> 0], available |-> 0, offset |-> 0,
     fingerprint |-> [i \in 1..FingerprintSize |-> 0],
     model |-> model, layout |-> LayoutOf(model),
     packetsize |-> PacketSizeOf(model)]

(***************************************************************************)
(* mares_iconhd_device_foreach: the tables.                                *)
(***************************************************************************)
\* lines 544-552: the size of the first part of the dive header
MiniHeaderSize(model) ==
    CASE model = ICONHDNET -> 128
      [] model = QUADAIR -> 132
      [] model \in {SMART, SMARTAIR} -> 4
      [] model = SMARTAPNEA -> 6
      [] OTHER -> 92

\* line 611: the sample count is stored before the type
CountFirst(model) == model \in {SMART, SMARTAPNEA, SMARTAIR}

\* lines 625-652
HeaderSize(model, mode) ==
    CASE model = ICONHDNET -> 128
      [] model = QUADAIR -> 132
      [] model = SMART /\ mode = FREEDIVE -> 46
      [] model = SMARTAPNEA -> 80
      [] model = SMARTAIR -> 132
      [] OTHER -> 92

\* lines 625-652
SampleSize(model, mode) ==
    CASE model \in {ICONHDNET, QUADAIR, SMARTAIR} -> 12
      [] model = SMART /\ mode = FREEDIVE -> 6
      [] model = SMARTAPNEA -> 14
      [] OTHER -> 8

\* a decoder that looks for the fingerprint two bytes further on
FingerprintOffset_Shifted(model, mode) ==
    CASE model = SMART /\ mode = FREEDIVE -> 34
      [] model = SMART -> 4
      [] model = SMARTAPNEA -> 66
      [] model = SMARTAIR -> 4
      [] OTHER -> 8

\* lines 625-652
FingerprintOffset(model, mode) ==
    CASE model = SMART /\ mode = FREEDIVE -> 32
      [] model = SMART -> 2
      [] model = SMARTAPNEA -> 64
      [] model = SMARTAIR -> 2
      [] OTHER -> 6

\* line 675: 1 << ((settings >> 9) & 0x03)
SampleRate(settings) ==
    LET e == (settings \div 512) % 4
    IN  CASE e = 0 -> 1 [] e = 1 -> 2 [] e = 2 -> 4 [] OTHER -> 8

\* lines 669-678: the total number of bytes of a dive, modulo 2^32
RecordLength(model, headersize, samplesize, nsamples, settings, divetime) ==
    LET base == U32FromInt(4 + headersize + nsamples * samplesize)
    IN  IF model \in {ICONHDNET, QUADAIR, SMARTAIR}
        THEN U32Add(base, U32FromInt((nsamples \div 4) * 8))
        ELSE IF model = SMARTAPNEA
        THEN U32Add(base, U32Mul(divetime, SampleRate(settings) * 2))
        ELSE base

\* line 598: the size of the ring, and of the scratch buffer
RingLen == device.layout.rb_profile_end - device.layout.rb_profile_begin

(***************************************************************************)
(* The device memory, an external collaborator: what the memory reads of   *)
(* the enumerator can return.  A record is written by the device as        *)
(*   [length (4)] [samples] [header], the type and the sample count being  *)
(* the first two fields of the header or, on the Smart family, its last.   *)
(***************************************************************************)
\* statuses of a memory read (mares_iconhd_device_read, dc_rbstream_read)
DevReadResults == {DC_STATUS_SUCCESS, DC_STATUS_IO, DC_STATUS_TIMEOUT}

\* the fingerprint bytes of the dive with identity k (0: ten zero bytes)
FpBytes(k) == [i \in 1..FingerprintSize |-> IF i = 1 THEN k ELSE 0]

FpRuns(k) == Run(k, 1) \o Run(0, FingerprintSize - 1)

\* identities of fingerprints: 0 is ten zero bytes
FpIds == 0..MaxDives

\* the fingerprint of the record read after n others: its own, or zeros
DiveFps(n) == {0, n + 1}

\* values of the ring pointer field i
PtrVals(layout, i) ==
    {AllOnes32,
     U32FromInt(layout.rb_profile_end - 1),
     U32FromInt(layout.rb_profile_end)}
    \cup (IF i # 0 THEN {}
          ELSE {U32FromInt(layout.rb_profile_begin - 1),
                U32FromInt(layout.rb_profile_begin)})

\* type fields: nitrox, and on the Smart also a freedive (other bits set)
TypeVals(model) == IF model = SMART THEN {2, 7} ELSE {2}

\* the sample count that fills what is left of the ring (at most 0xFFFE)
NsFill(model, type, off) ==
    LET mode == type % 4
        room == off - 4 - HeaderSize(model, mode)
        fill == IF room < 0 THEN 0
                ELSE IF model \in {ICONHDNET, QUADAIR, SMARTAIR}
                THEN 4 * (room \div 56)
                ELSE room \div SampleSize(model, mode)
    IN  IF fill > AllOnes16 - 1 THEN AllOnes16 - 1 ELSE fill

\* sample counts: none, a few, and those that reach the start of the ring
NsVals(model, type, off) ==
    LET fill == NsFill(model, type, off)
    IN  ({0, fill, fill + 1}
            \cup (IF CountFirst(model) THEN {fill - 2} ELSE {}))
        \cap 0..(AllOnes16 - 1)

\* the first part of a header, as the device stores it
MiniHeaderBytes(model, type, ns, fp) ==
    IF model \in {SMART, SMARTAIR} THEN LE16(ns) \o LE16(type)
    ELSE IF model = SMARTAPNEA THEN LE16(ns) \o LE16(type) \o Run(0, 2)
    ELSE LE16(type) \o LE16(ns) \o Run(0, 2) \o FpRuns(fp)
         \o Run(0, (IF model = ICONHDNET THEN 128
                    ELSE IF model = QUADAIR THEN 132 ELSE 92) - 16)

\* what the read of the first part of a header can return, n records
\* having been read before: erased memory, a sentinel in one of the two
\* fields, or the header of one more record (id: the fingerprint the
\* device wrote into these bytes)
MiniHeaders(model, off, n) ==
    {[bytes |-> b, id |-> 0] :
        b \in {Run(255, MiniHeaderSize(model)),
               MiniHeaderBytes(model, AllOnes16, 4, 1),
               MiniHeaderBytes(model, 2, AllOnes16, 1)}}
    \cup (IF n >= MaxDives THEN {}
          ELSE UNION {{[bytes |-> MiniHeaderBytes(model, t, ns, fp),
                        id |-> fp] :
                          ns \in NsVals(model, t, off),
                          fp \in IF CountFirst(model) THEN {0}
                                 ELSE DiveFps(n)} :
                      t \in TypeVals(model)})

\* settings and dive time of a Smart Apnea header: no samples, one second
\* at 8 Hz, and a dive time (0x7FFFFFD6) for which divetime * samplerate * 2
\* wraps to -84
ApneaFields ==
    {[settings |-> 0, divetime |-> U32(0, 0)],
     [settings |-> 1536, divetime |-> U32(0, 1)],
     [settings |-> 0, divetime |-> U32(32767, 65494)]}

\* what the read of the rest of a header can return
RestHeaders(model, mode, n) ==
    IF model = SMART /\ mode = FREEDIVE
    THEN {[bytes |-> Run(0, 32) \o FpRuns(fp), id |-> fp] :
            fp \in DiveFps(n)}
    ELSE IF model = SMART
    THEN {[bytes |-> Run(0, 2) \o FpRuns(fp) \o Run(0, 76), id |-> fp] :
            fp \in DiveFps(n)}
    ELSE IF model = SMARTAIR
    THEN {[bytes |-> Run(0, 2) \o FpRuns(fp) \o Run(0, 116), id |-> fp] :
            fp \in DiveFps(n)}
    ELSE IF model = SMARTAPNEA
    THEN {[bytes |-> Run(0, 28) \o LE16(f.settings) \o Run(0, 6)
                       \o LE32(f.divetime) \o Run(0, 24) \o FpRuns(fp),
           id |-> fp] :
          f \in ApneaFields, fp \in DiveFps(n)}
    ELSE {[bytes |-> <<>>, id |-> 0]}

\* what the read of the samples and the length field can return: the
\* length is the one the header implies, or one more
Payloads(total, n) ==
    IF n < 4 THEN {Run(0, n)}
    ELSE {LE32(stored) \o Run(85, n - 4) :
            stored \in {total, U32Add(total, U32FromInt(1))}}

(***************************************************************************)
(* mares_iconhd_device_set_fingerprint                                     *)
(***************************************************************************)
DC_STATUS_INVALIDARGS == "INVALIDARGS"
DC_STATUS_NOMEMORY    == "NOMEMORY"
DC_STATUS_DATAFORMAT  == "DATAFORMAT"

\* lines 429-437: the fingerprint stored for a call with n bytes of data
StoredFingerprint(bytes, n) ==
    IF n # 0 THEN bytes ELSE [i \in 1..FingerprintSize |-> 0]

\* lines 424-438; the data are the fingerprint bytes of dive identity k
mares_iconhd_device_set_fingerprint(n, k) ==
    /\ pc = "fe_idle"
    /\ IF n # 0 /\ n # FingerprintSize
       THEN /\ ret' = DC_STATUS_INVALIDARGS
            /\ UNCHANGED <<device, fpsize>>
       ELSE /\ device' = [device EXCEPT
                            !.fingerprint = StoredFingerprint(FpBytes(k), n)]
            /\ fpsize' = n
            /\ ret' = DC_STATUS_SUCCESS
    /\ UNCHANGED openVars
    /\ UNCHANGED <<pc, ioLocals, cb, progress, eop, memreads, rbstream,
                   buffer, offset, rec, dives, callbacks, stop>>

(***************************************************************************)
(* mares_iconhd_device_foreach                                             *)
(***************************************************************************)
\* line 556: the addresses of the two ring pointer fields
Config(i) == IF i = 0 THEN 8193 ELSE 12289

\* an enumerator that reads both fields and keeps the second value
PointerTaken_Never(p) == FALSE

\* line 572: this pointer value is taken (the loop over the fields ends)
PointerTaken(p) == p # AllOnes32

OutOfRing_NoUpper(p, layout) ==
    U32Lt(p, U32FromInt(layout.rb_profile_begin))

OutOfRing_BeginExcluded(p, layout) ==
    \/ ~U32Lt(U32FromInt(layout.rb_profile_begin), p)
    \/ ~U32Lt(p, U32FromInt(layout.rb_profile_end))

\* line 575: the pointer lies outside the ring
OutOfRing(p, layout) ==
    \/ U32Lt(p, U32FromInt(layout.rb_profile_begin))
    \/ ~U32Lt(p, U32FromInt(layout.rb_profile_end))

NoDives_Never(p) == FALSE

\* line 576: the pointer says that there are no dives
NoDives(p) == p = AllOnes32

\* line 599: the walk goes on while a first header part and a length fit
WalkGoesOn(off, header) == off >= header + 4

\* line 618: a field of the header is the 0xFFFF sentinel
Sentinel(type, nsamples) == nsamples = AllOnes16 \/ type = AllOnes16

LengthMismatch_Never(length, total) == FALSE

\* line 698: the stored length differs from the computed one
LengthMismatch(length, total) == length # total

BreakStatus_LengthIsError(why) ==
    IF why = "length" THEN DC_STATUS_DATAFORMAT ELSE DC_STATUS_SUCCESS

\* lines 711-714: what foreach returns when the walk ends by the loop
\* condition or by a break
BreakStatus(why) == DC_STATUS_SUCCESS

\* line 702: memcmp (fp, device->fingerprint, 10) == 0
FingerprintMatch(fp, fingerprint) == fp = fingerprint

\* the byte at index i of the scratch buffer, whose bytes [lo, RingLen)
\* are b
BufAt(b, i) == RAt(b, i - (RingLen - RLen(b)))

BufU16(b, i) == array_uint16_le(b, i - (RingLen - RLen(b)))

BufU32(b, i) == array_uint32_le(b, i - (RingLen - RLen(b)))

\* rbstream.h: dc_rbstream_read moves the cursor n bytes back, wrapping
\* from rb_profile_begin to rb_profile_end, and adds n to the progress
RbStep(rb, n) ==
    LET begin == device.layout.rb_profile_begin
        back  == (rb.address - begin + RingLen - (n % RingLen)) % RingLen
    IN  [rb EXCEPT !.address = begin + back]

Advance(p, n) == [p EXCEPT !.current = p.current + n]

Release_Leak(state, held) == state

\* dc_rbstream_free (rbstream) and free (buffer) on the return paths
\* (lines 594, 604-605, 660-661, 686-687, 711-712): what is held is freed
Release(state, held) == IF state = held THEN "freed" ELSE state

\* foreach returns st; the stream and the buffer, if any, are released
Leave(st, why, rb, b) ==
    /\ pc' = "done"
    /\ ret' = st
    /\ stop' = why
    /\ rbstream' = [rb EXCEPT !.state = Release(rb.state, "open")]
    /\ buffer' = [state |-> Release(buffer.state, "allocated"), bytes |-> b]

\* lines 500-553: the call, the first progress event, the serial number
foreach_begin(c) ==
    /\ pc = "fe_idle"
    /\ cb' = c
    /\ memreads' = <<12>>
    /\ \E st \in DevReadResults :
         IF st # DC_STATUS_SUCCESS
         THEN /\ Leave(st, "error", rbstream, buffer.bytes)
              /\ progress' = [current |-> 0, maximum |-> RingLen + 4]
              /\ UNCHANGED rec
         ELSE /\ progress' = [current |-> 4, maximum |-> RingLen + 4]
              /\ rec' = [rec EXCEPT !.i = 0]
              /\ pc' = "fe_pointer"
              /\ ret' = DC_STATUS_SUCCESS
              /\ UNCHANGED <<stop, rbstream, buffer>>
    /\ UNCHANGED openVars
    /\ UNCHANGED <<device, ioLocals, fpsize, eop, offset, dives, callbacks>>

PointerProgress_CurrentOnly(p) == [p EXCEPT !.current = p.current + 4]

\* lines 566-569: the progress event after a pointer was read
PointerProgress(p) ==
    [current |-> p.current + 4, maximum |-> p.maximum + 4]

\* lines 557-580: one ring pointer field is read; when the loop ends, the
\* pointer is checked against the ring
foreach_pointer ==
    /\ pc = "fe_pointer"
    /\ memreads' = Append(memreads, Config(rec.i))
    /\ \E st \in DevReadResults :
         IF st # DC_STATUS_SUCCESS
         THEN /\ Leave(st, "error", rbstream, buffer.bytes)
              /\ UNCHANGED <<progress, eop, rec>>
         ELSE \E p \in PtrVals(device.layout, rec.i) :
                /\ progress' = PointerProgress(progress)
                /\ eop' = p
                /\ IF ~PointerTaken(p) /\ rec.i + 1 < 2
                   THEN /\ rec' = [rec EXCEPT !.i = rec.i + 1]
                        /\ UNCHANGED <<pc, ret, stop, rbstream, buffer>>
                   ELSE /\ UNCHANGED rec
                        /\ IF OutOfRing(p, device.layout)
                           THEN IF NoDives(p)
                                THEN Leave(DC_STATUS_SUCCESS, "empty",
                                           rbstream, buffer.bytes)
                                ELSE Leave(DC_STATUS_DATAFORMAT, "range",
                                           rbstream, buffer.bytes)
                           ELSE /\ pc' = "fe_create"
                                /\ UNCHANGED <<ret, stop, rbstream, buffer>>
    /\ UNCHANGED openVars
    /\ UNCHANGED <<device, ioLocals, fpsize, cb, offset, dives, callbacks>>

\* lines 582-598: the ring stream is created at eop, the scratch buffer
\* is allocated (either can fail)
foreach_create ==
    /\ pc = "fe_create"
    /\ \E st \in {DC_STATUS_SUCCESS, DC_STATUS_NOMEMORY}, ok \in BOOLEAN :
         IF st # DC_STATUS_SUCCESS
         THEN /\ Leave(st, "error", rbstream, buffer.bytes)
              /\ UNCHANGED offset
         ELSE LET rb == [state |-> "open", address |-> U32ToInt(eop)]
              IN  IF ~ok
                  THEN /\ Leave(DC_STATUS_NOMEMORY, "error", rb, buffer.bytes)
                       /\ UNCHANGED offset
                  ELSE /\ rbstream' = rb
                       /\ buffer' = [state |-> "allocated", bytes |-> <<>>]
                       /\ offset' = RingLen
                       /\ pc' = "fe_walk"
                       /\ UNCHANGED <<ret, stop>>
    /\ UNCHANGED openVars
    /\ UNCHANGED <<device, ioLocals, fpsize, cb, progress, eop, memreads,
                   rec, dives, callbacks>>

\* lines 599-654: the loop condition, the read of the first part of the
\* header, the sentinel check, the tables, the check of the header size
foreach_walk ==
    /\ pc = "fe_walk"
    /\ LET model  == device.model
           header == MiniHeaderSize(model)
       IN  IF ~WalkGoesOn(offset, header)
           THEN /\ Leave(BreakStatus("start"), "start", rbstream, buffer.bytes)
                /\ UNCHANGED <<progress, rec>>
           ELSE \E st \in DevReadResults :
             IF st # DC_STATUS_SUCCESS
             THEN /\ Leave(st, "error", rbstream, buffer.bytes)
                  /\ UNCHANGED <<progress, rec>>
             ELSE \E h \in MiniHeaders(model, offset, Len(dives)) :
               LET b    == h.bytes \o buffer.bytes
                   rb   == RbStep(rbstream, header)
                   at   == offset - header
                   type == IF CountFirst(model) THEN BufU16(b, at + 2)
                                                ELSE BufU16(b, at)
                   nsamples == IF CountFirst(model) THEN BufU16(b, at)
                                                    ELSE BufU16(b, at + 2)
                   mode == type % 4
                   r    == [rec EXCEPT
                              !.id = h.id,
                              !.type = type,
                              !.nsamples = nsamples,
                              !.headersize = HeaderSize(model, mode),
                              !.samplesize = SampleSize(model, mode),
                              !.fingerprint = FingerprintOffset(model, mode)]
               IN  /\ progress' = Advance(progress, header)
                   /\ IF Sentinel(type, nsamples)
                      THEN /\ Leave(BreakStatus("sentinel"), "sentinel", rb, b)
                           /\ rec' = [rec EXCEPT !.type = type,
                                                 !.nsamples = nsamples]
                      ELSE /\ rec' = r
                           /\ IF offset < r.headersize
                              THEN Leave(BreakStatus("header"), "header", rb, b)
                              ELSE /\ rbstream' = rb
                                   /\ buffer' = [buffer EXCEPT !.bytes = b]
                                   /\ pc' = "fe_header"
                                   /\ UNCHANGED <<ret, stop>>
    /\ UNCHANGED openVars
    /\ UNCHANGED <<device, ioLocals, fpsize, cb, eop, memreads, offset,
                   dives, callbacks>>

Truncated_Never(remaining, total) == FALSE

\* lines 679-680: the record is longer than what is left of the buffer
\* (both are unsigned int; total is a 32-bit value)
Truncated(remaining, total) == U32Lt(U32FromInt(remaining), total)

\* lines 656-680: the read of the rest of the header, the length of the
\* record, the check that the record is complete
foreach_header ==
    /\ pc = "fe_header"
    /\ LET model  == device.model
           header == MiniHeaderSize(model)
       IN  \E st \in DevReadResults :
             IF st # DC_STATUS_SUCCESS
             THEN /\ Leave(st, "error", rbstream, buffer.bytes)
                  /\ UNCHANGED <<progress, rec>>
             ELSE \E h \in RestHeaders(model, rec.type % 4, Len(dives)) :
               LET b  == h.bytes \o buffer.bytes
                   rb == RbStep(rbstream, rec.headersize - header)
                   at == offset - rec.headersize
                   settings == IF model = SMARTAPNEA
                               THEN BufU16(b, at + 28) ELSE 0
                   divetime == IF model = SMARTAPNEA
                               THEN BufU32(b, at + 36) ELSE U32(0, 0)
                   total == RecordLength(model, rec.headersize,
                                          rec.samplesize, rec.nsamples,
                                          settings, divetime)
               IN  /\ progress' = Advance(progress, rec.headersize - header)
                   /\ rec' = [rec EXCEPT
                                !.nbytes = total,
                                !.id = IF CountFirst(model) THEN h.id
                                       ELSE rec.id]
                   /\ IF Truncated(offset, total)
                      THEN Leave(BreakStatus("truncated"), "truncated", rb, b)
                      ELSE /\ rbstream' = rb
                           /\ buffer' = [buffer EXCEPT !.bytes = b]
                           /\ pc' = "fe_payload"
                           /\ UNCHANGED <<ret, stop>>
    /\ UNCHANGED openVars
    /\ UNCHANGED <<device, ioLocals, fpsize, cb, eop, memreads, offset,
                   dives, callbacks>>

\* lines 682-709: the read of the remainder of the dive, the check of the
\* stored length, the fingerprint comparison, the callback
foreach_payload ==
    /\ pc = "fe_payload"
    /\ LET model == device.model
           total == U32ToInt(rec.nbytes)
           n == total - rec.headersize
       IN  IF n < 0
           THEN \* total - headersize wraps: the read runs over the buffer
                /\ pc' = "undefined"
                /\ stop' = "overflow"
                /\ UNCHANGED <<ret, rbstream, buffer, progress, offset,
                               dives, callbacks>>
           ELSE \E st \in DevReadResults :
             IF st # DC_STATUS_SUCCESS
             THEN /\ Leave(st, "error", rbstream, buffer.bytes)
                  /\ UNCHANGED <<progress, offset, dives, callbacks>>
             ELSE \E bytes \in Payloads(rec.nbytes, n) :
               LET b  == bytes \o buffer.bytes
                   rb == RbStep(rbstream, n)
                   at == offset - total
                   length == BufU32(b, at)
                   fpat == at + total - rec.headersize + rec.fingerprint
                   fp == [k \in 1..FingerprintSize |-> BufAt(b, fpat + k - 1)]
                   dive == [off |-> at, len |-> total, fp |-> fp]
                   written == [off |-> at, len |-> total, id |-> rec.id]
               IN  /\ progress' = Advance(progress, n)
                   /\ offset' = at
                   /\ IF LengthMismatch(length, rec.nbytes)
                      THEN /\ Leave(BreakStatus("length"), "length", rb, b)
                           /\ UNCHANGED <<dives, callbacks>>
                      ELSE /\ dives' = Append(dives, written)
                           /\ IF FingerprintMatch(fp, device.fingerprint)
                              THEN /\ Leave(BreakStatus("fingerprint"),
                                            "fingerprint", rb, b)
                                   /\ UNCHANGED callbacks
                              ELSE IF cb
                              THEN /\ callbacks' = Append(callbacks, dive)
                                   /\ \E goon \in BOOLEAN :
                                        IF ~goon
                                        THEN Leave(BreakStatus("callback"),
                                                   "callback", rb, b)
                                        ELSE /\ rbstream' = rb
                                             /\ buffer' = [buffer EXCEPT
                                                             !.bytes = b]
                                             /\ pc' = "fe_walk"
                                             /\ UNCHANGED <<ret, stop>>
                              ELSE /\ rbstream' = rb
                                   /\ buffer' = [buffer EXCEPT !.bytes = b]
                                   /\ pc' = "fe_walk"
                                   /\ UNCHANGED <<ret, stop, callbacks>>
    /\ UNCHANGED openVars
    /\ UNCHANGED <<device, ioLocals, fpsize, cb, eop, memreads, rec>>

\* the locals of the I/O layer before any call
IoLocalsInit ==
    /\ cancelled = FALSE
    /\ csize = 2
    /\ asize = 0
    /\ nretries = 0
    /\ rc = DC_STATUS_SUCCESS
    /\ size = 0
    /\ nbytes = 0
    /\ data = <<>>
    /\ answer = <<>>
    /\ result = DC_STATUS_SUCCESS
    /\ attempts = 0
    /\ purges = 0
    /\ stale = NoStale
    /\ spins = 0
    /\ iocalls = 0
    /\ wire = <<>>
    /\ out = <<>>

(***************************************************************************)
(* mares_iconhd_device_read and mares_iconhd_device_dump.  A call of       *)
(* mares_iconhd_transfer is one step here: its status is chosen by the     *)
(* environment (SpecXfer is the model of what happens inside).             *)
(***************************************************************************)
TransferResults ==
    {DC_STATUS_SUCCESS, DC_STATUS_IO, DC_STATUS_TIMEOUT, DC_STATUS_PROTOCOL,
     DC_STATUS_CANCELLED}

PacketLength_NoClamp(remaining, packetsize) == remaining

\* lines 450-452: the length of the next packet
PacketLength(remaining, packetsize) ==
    IF remaining > packetsize THEN packetsize ELSE remaining

\* lines 455-463: the address and length fields of the command, decoded
CommandFields(address, len) == [address |-> address, len |-> len]

\* the commands sent so far, summed up: how many, the first address, the
\* end of the last one, whether each began where the one before it ended,
\* the longest length, how many were shorter than the packet size
Sent(log, cmd, packetsize) ==
    [count  |-> log.count + 1,
     first  |-> IF log.count = 0 THEN cmd.address ELSE log.first,
     end    |-> cmd.address + cmd.len,
     contiguous |-> log.contiguous
                      /\ (log.count = 0 \/ cmd.address = log.end),
     longest |-> IF cmd.len > log.longest THEN cmd.len ELSE log.longest,
     short  |-> log.short + (IF cmd.len < packetsize THEN 1 ELSE 0),
     afterfailure |-> log.afterfailure \/ log.failed,
     failed |-> log.failed]

NothingSent ==
    [count |-> 0, first |-> 0, end |-> 0, contiguous |-> TRUE, longest |-> 0,
     short |-> 0, afterfailure |-> FALSE, failed |-> FALSE]

\* the reader and the dump before any call
MemIdle ==
    [op |-> "none", start |-> 0, address |-> 0, size |-> 0, nbytes |-> 0,
     rc |-> DC_STATUS_SUCCESS, bufsize |-> 0, dumped |-> 0, dumpsize |-> 0,
     log |-> NothingSent]

\* lines 441-447: mares_iconhd_device_read (abstract, address, data, size)
ReadEntered(m, address, sz) ==
    [m EXCEPT !.start = address, !.address = address, !.size = sz,
              !.nbytes = 0, !.rc = DC_STATUS_SUCCESS]

device_read_call(address, sz) ==
    /\ pc = "mem_idle"
    /\ mem' = [ReadEntered(MemIdle, address, sz) EXCEPT !.op = "read"]
    /\ pc' = "mem_loop"
    /\ UNCHANGED <<device, ioLocals, enumVars, session>>

\* lines 448-473: one turn of the loop, or the return after it
device_read_loop ==
    /\ pc = "mem_loop"
    /\ IF mem.nbytes < mem.size
       THEN LET len == PacketLength(mem.size - mem.nbytes, device.packetsize)
                cmd == CommandFields(mem.address, len)
                log == Sent(mem.log, cmd, device.packetsize)
            IN  \E st \in TransferResults :
                  IF st # DC_STATUS_SUCCESS
                  THEN /\ mem' = [mem EXCEPT
                                    !.rc = st,
                                    !.log = [log EXCEPT !.failed = TRUE]]
                       /\ pc' = "mem_return"
                  ELSE /\ mem' = [mem EXCEPT
                                    !.rc = st,
                                    !.nbytes = mem.nbytes + len,
                                    !.address = mem.address + len,
                                    !.log = log]
                       /\ pc' = "mem_loop"
       ELSE /\ pc' = "mem_return"
            /\ UNCHANGED mem
    /\ UNCHANGED <<device, ioLocals, enumVars, session>>

\* lines 477-485: the buffer is resized to the size of the memory
device_dump_call ==
    /\ pc = "mem_idle"
    /\ \E resized \in BOOLEAN :
         IF ~resized
         THEN /\ mem' = [MemIdle EXCEPT !.op = "dump",
                                        !.rc = DC_STATUS_NOMEMORY]
              /\ pc' = "mem_done"
         ELSE /\ mem' = [MemIdle EXCEPT !.op = "dump",
                                        !.bufsize = device.layout.memsize,
                                        !.dumpsize = device.layout.memsize]
              /\ pc' = "dump_loop"
    /\ UNCHANGED <<device, ioLocals, enumVars, session>>

\* device_dump_read (device-private.h), called at lines 494-495: the
\* memory is read from address 0 in blocks of the packet size with the
\* read function of the device
device_dump_read_loop ==
    /\ pc = "dump_loop"
    /\ IF mem.dumped < mem.dumpsize
       THEN /\ mem' = ReadEntered(mem, mem.dumped,
                         PacketLength(mem.dumpsize - mem.dumped,
                                      device.packetsize))
            /\ pc' = "mem_loop"
       ELSE /\ pc' = "mem_done"
            /\ UNCHANGED mem
    /\ UNCHANGED <<device, ioLocals, enumVars, session>>

\* line 473 (and 466): the reader returns to its caller
device_read_return ==
    /\ pc = "mem_return"
    /\ IF mem.op = "dump" /\ mem.rc = DC_STATUS_SUCCESS
       THEN /\ mem' = [mem EXCEPT !.dumped = mem.dumped + mem.size]
            /\ pc' = "dump_loop"
       ELSE /\ pc' = "mem_done"
            /\ UNCHANGED mem
    /\ UNCHANGED <<device, ioLocals, enumVars, session>>

\* the next call
device_mem_again ==
    /\ pc = "mem_done"
    /\ pc' = "mem_idle"
    /\ mem' = MemIdle
    /\ UNCHANGED <<device, ioLocals, enumVars, session>>

\* no device_open call is modelled: the session is the one it returned
NoSession ==
    [name |-> <<>>, version |-> <<>>, allocated |-> 1, deallocated |-> 0,
     out |-> "device", status |-> DC_STATUS_SUCCESS]

OpenIdle ==
    /\ mem = MemIdle
    /\ session = NoSession

MemAddresses == {0, 12, 8193}
MemSizes == {0, 1, 4, 255, 256, 257, 4096, 4097, 8193}
MemModels == {ICONHD, MATRIX}

(***************************************************************************)
(* SpecEnum: set_fingerprint calls, then one enumeration.                  *)
(***************************************************************************)
EnumModels == {MATRIX, ICONHDNET, SMART, SMARTAPNEA}

\* the locals of foreach before the call
EnumIdle ==
    /\ fpsize = -1
    /\ cb = FALSE
    /\ progress = [current |-> 0, maximum |-> 0]
    /\ eop = U32(0, 0)
    /\ memreads = <<>>
    /\ rbstream = [state |-> "none", address |-> 0]
    /\ buffer = [state |-> "none", bytes |-> <<>>]
    /\ offset = 0
    /\ rec = [i |-> 0, id |-> 0, type |-> 0, nsamples |-> 0, headersize |-> 0,
              samplesize |-> 0, fingerprint |-> 0, nbytes |-> U32(0, 0)]
    /\ dives = <<>>
    /\ callbacks = <<>>
    /\ stop = "none"
    /\ ret = DC_STATUS_SUCCESS

InitEnum ==
    /\ transport = DC_TRANSPORT_SERIAL
    /\ IoLocalsInit
    /\ pc = "fe_idle"
    /\ \E m \in EnumModels : device = OpenedDevice(m)
    /\ EnumIdle
    /\ OpenIdle

NextEnum ==
    \/ \E n \in {0, 4, FingerprintSize}, k \in FpIds :
          mares_iconhd_device_set_fingerprint(n, k)
    \/ \E c \in BOOLEAN : foreach_begin(c)
    \/ foreach_pointer
    \/ foreach_create
    \/ foreach_walk
    \/ foreach_header
    \/ foreach_payload

SpecEnum == InitEnum /\ [][NextEnum]_vars

(***************************************************************************)
(* Claims about the enumerator, under SpecEnum.                            *)
(***************************************************************************)
\* what the callback receives for the record d the device wrote
Delivered(d) == [off |-> d.off, len |-> d.len, fp |-> FpBytes(d.id)]

\* the positions, newest first, of the records that carry the session
\* fingerprint
Boundaries ==
    {i \in 1..Len(dives) : FpBytes(dives[i].id) = device.fingerprint}

\* the records were read newest first, each one ending where the one
\* before it starts, the newest one ending at the end of the buffer
NewestFirst ==
    \A i \in 1..Len(dives) :
        dives[i].off + dives[i].len =
            IF i = 1 THEN RingLen ELSE dives[i - 1].off

RingBegin == U32FromInt(device.layout.rb_profile_begin)

InRing(p) ==
    /\ U32IsInt(p)
    /\ device.layout.rb_profile_begin <= U32ToInt(p)
    /\ U32ToInt(p) < device.layout.rb_profile_end

\* C6: with the fingerprint set to the ten fingerprint bytes of dive K
\* (the newest record carrying them), the callback is invoked exactly once
\* for each record newer than K, newest first, with that record's offset,
\* length and fingerprint, never for K or an older record, and the
\* enumeration returns Success.
C6_FingerprintBoundary ==
    (fpsize = FingerprintSize /\ cb) =>
        /\ NewestFirst
        /\ Len(callbacks) <= Len(dives)
        /\ \A i \in 1..Len(callbacks) :
              callbacks[i] = Delivered(dives[i]) /\ i \notin Boundaries
        /\ \A k \in Boundaries :
              /\ k = Len(dives)
              /\ Len(callbacks) = k - 1
              /\ pc = "done"
              /\ stop = "fingerprint"
              /\ ret = DC_STATUS_SUCCESS

C6_Witness ==
    /\ pc = "done"
    /\ fpsize = FingerprintSize
    /\ device.fingerprint = FpBytes(3)
    /\ Len(dives) = 3
    /\ Boundaries = {3}
    /\ Len(callbacks) = 2
    /\ ret = DC_STATUS_SUCCESS

\* C7: after set_fingerprint with size 0 the stored fingerprint is all
\* zero, every well-formed record read is passed to the callback, and no
\* record's fingerprint slice ends the walk as a fingerprint match.
C7_ClearedFingerprintNoBoundary ==
    (fpsize = 0 /\ cb) =>
        /\ device.fingerprint = [i \in 1..FingerprintSize |-> 0]
        /\ Len(callbacks) = Len(dives)
        /\ stop # "fingerprint"

\* C8 as stated: when eop equals rb_profile_begin and the enumeration
\* returns Success, the callback was not invoked.
C8_BeginPointerNoCallback ==
    (pc = "done" /\ eop = RingBegin /\ ret = DC_STATUS_SUCCESS) =>
        callbacks = <<>>

\* C8, amended: eop equal to rb_profile_begin is a pointer inside the ring:
\* the enumeration never returns DataFormat for it, every end of it other
\* than a failed read or allocation returns Success, and the callback is
\* invoked zero times exactly when the newest record slot holds no
\* well-formed record, or one that carries the session fingerprint, or no
\* callback was given.
C8_BeginPointerInsideRing ==
    (pc = "done" /\ eop = RingBegin) =>
        /\ ret # DC_STATUS_DATAFORMAT
        /\ stop # "error" => ret = DC_STATUS_SUCCESS
        /\ stop # "error" => rbstream.state = "freed"
        /\ callbacks = <<>> <=>
              (dives = <<>> \/ 1 \in Boundaries \/ ~cb)

C8_Witness ==
    /\ pc = "done"
    /\ eop = RingBegin
    /\ stop = "sentinel"
    /\ dives = <<>>
    /\ callbacks = <<>>
    /\ rbstream.address =
          device.layout.rb_profile_end - MiniHeaderSize(device.model)
    /\ ret = DC_STATUS_SUCCESS

\* C9: when both ring pointer fields (0x2001, 0x3001) read as 0xFFFFFFFF,
\* the enumeration returns Success with zero callbacks, without creating
\* the ring stream or the scratch buffer and without reading ring data.
C9_BothPointersSentinel ==
    (pc = "done" /\ stop # "error" /\ eop = AllOnes32) =>
        /\ memreads = <<12, 8193, 12289>>
        /\ ret = DC_STATUS_SUCCESS
        /\ callbacks = <<>>
        /\ dives = <<>>
        /\ rbstream.state = "none"
        /\ buffer.state = "none"
        /\ progress.current = 12

C9_Witness ==
    /\ pc = "done"
    /\ stop = "empty"
    /\ eop = AllOnes32
    /\ memreads = <<12, 8193, 12289>>
    /\ ret = DC_STATUS_SUCCESS

\* C10: a ring pointer that is not 0xFFFFFFFF and lies outside
\* [rb_profile_begin, rb_profile_end) makes the enumeration return
\* DataFormat with zero callbacks; the ring stream is created, and the
\* walk started, only with rb_profile_begin <= eop < rb_profile_end.
C10_PointerOutsideRing ==
    /\ (pc = "done" /\ stop # "error" /\ eop # AllOnes32 /\ ~InRing(eop)) =>
          /\ ret = DC_STATUS_DATAFORMAT
          /\ callbacks = <<>>
          /\ dives = <<>>
    /\ (rbstream.state # "none"
          \/ pc \in {"fe_create", "fe_walk", "fe_header", "fe_payload"}) =>
          InRing(eop)

C10_Witness ==
    /\ pc = "done"
    /\ eop = U32FromInt(device.layout.rb_profile_end)
    /\ ret = DC_STATUS_DATAFORMAT
    /\ rbstream.state = "none"
    /\ memreads = <<12, 8193>>


\* the positions of the walk
WalkPcs == {"fe_walk", "fe_header", "fe_payload"}

\* the ways the walk ends other than by a failed read
CleanStops ==
    {"start", "sentinel", "header", "truncated", "length", "fingerprint",
     "callback"}

\* C11: a record whose stored 4-byte length differs from the length
\* computed from its header is never passed to the callback; the walk stops
\* at it, the callbacks made for newer records stay as they are, nothing
\* older is read, and the enumeration returns Success.
C11_StoredLengthMismatch ==
    /\ [](stop = "length" =>
             /\ pc = "done"
             /\ ret = DC_STATUS_SUCCESS
             /\ BufU32(buffer.bytes, offset) # rec.nbytes
             /\ RLen(buffer.bytes) = RingLen - offset
             /\ Len(callbacks) <= Len(dives)
             /\ \A i \in 1..Len(callbacks) :
                   callbacks[i].off >= offset + U32ToInt(rec.nbytes))
    /\ [][/\ stop' = "length" => callbacks' = callbacks
          /\ Len(callbacks') > Len(callbacks) =>
                BufU32(buffer'.bytes, callbacks'[Len(callbacks')].off)
                   = U32FromInt(callbacks'[Len(callbacks')].len)]_vars

C11_Witness ==
    /\ pc = "done"
    /\ stop = "length"
    /\ Len(callbacks) = 2
    /\ ret = DC_STATUS_SUCCESS

\* C12: once the walk has started, every end of it other than a failed
\* ring read (sentinel, header larger than offset, length larger than
\* offset, stored-length mismatch, fingerprint match, callback returning 0,
\* start of the ring reached) returns Success, and a result other than
\* Success is the status of a ring read that failed.
C12_CleanStopsSucceed ==
    [][(pc \in WalkPcs /\ pc' = "done") =>
          /\ stop' \in CleanStops \cup {"error"}
          /\ stop' \in CleanStops => ret' = DC_STATUS_SUCCESS
          /\ ret' # DC_STATUS_SUCCESS =>
                (stop' = "error" /\ ret' \in DevReadResults)]_vars

C12_Witness ==
    /\ pc = "done"
    /\ stop = "header"
    /\ Len(callbacks) = 1
    /\ ret = DC_STATUS_SUCCESS


\* C19: when the length computed from a header exceeds the remaining
\* offset, the walk stops with Success: the payload of that record is not
\* read and the callback is invoked neither for it nor for anything older.
\* So the payload is only read for a record that fits, and every record
\* passed to the callback lies inside the scratch buffer with a length
\* equal to the computed length and to its stored 4-byte length prefix.
C19_PartialRecordStops ==
    /\ [](pc = "fe_payload" => ~U32Lt(U32FromInt(offset), rec.nbytes))
    /\ [](stop = "truncated" =>
             /\ pc = "done"
             /\ ret = DC_STATUS_SUCCESS
             /\ U32Lt(U32FromInt(offset), rec.nbytes)
             /\ RLen(buffer.bytes) = RingLen - offset + rec.headersize
             /\ \A i \in 1..Len(callbacks) : callbacks[i].off >= offset)
    /\ [](\A i \in 1..Len(callbacks) :
             /\ callbacks[i].off >= 0
             /\ callbacks[i].off + callbacks[i].len <= RingLen
             /\ callbacks[i].off >= RingLen - RLen(buffer.bytes)
             /\ callbacks[i].len = dives[i].len)
    /\ [][/\ stop' = "truncated" =>
               /\ pc = "fe_header"
               /\ callbacks' = callbacks
               /\ progress'.current = progress.current + rec.headersize
                                         - MiniHeaderSize(device.model)
          /\ Len(callbacks') > Len(callbacks) =>
               /\ pc = "fe_payload"
               /\ callbacks'[Len(callbacks')].len = U32ToInt(rec.nbytes)
               /\ callbacks'[Len(callbacks')].off
                     = offset - U32ToInt(rec.nbytes)
               /\ BufU32(buffer'.bytes, offset') = rec.nbytes]_vars

\* two records were passed to the callback and the third one is longer
\* than what is left of the buffer
C19_Witness ==
    /\ pc = "done"
    /\ stop = "truncated"
    /\ Len(callbacks) = 2
    /\ ret = DC_STATUS_SUCCESS

\* C21: the ring pointer is the value read at 0x2001 unless that value is
\* 0xFFFFFFFF; only then 0x3001 is read, right after, and its value used.
\* A value of 0x2001 other than 0xFFFFFFFF ends the reading of pointers,
\* inside the ring or not.  A pointer read that fails ends the enumeration
\* with the status of that read, and no callback is made.
C21_FirstPointerWins ==
    /\ [](memreads \in {<<>>, <<12>>, <<12, 8193>>, <<12, 8193, 12289>>})
    /\ []((pc = "fe_pointer" /\ rec.i = 1) =>
             (memreads = <<12, 8193>> /\ eop = AllOnes32))
    /\ [](pc \in {"fe_create"} \cup WalkPcs =>
             /\ Len(memreads) >= 2
             /\ eop # AllOnes32
             /\ ~OutOfRing(eop, device.layout))
    /\ [](stop = "range" => (eop # AllOnes32 /\ ret = DC_STATUS_DATAFORMAT))
    /\ [][/\ (Len(memreads') = 3 /\ Len(memreads) = 2) =>
               (pc = "fe_pointer" /\ rec.i = 1 /\ eop = AllOnes32)
          /\ (pc = "fe_pointer" /\ rec.i = 0 /\ progress' # progress
                /\ eop' # AllOnes32) =>
               /\ pc' \in {"fe_create", "done"}
               /\ memreads' = <<12, 8193>>
               /\ pc' = "done" <=> OutOfRing(eop', device.layout)
          /\ (pc = "fe_pointer" /\ rec.i = 0 /\ progress' # progress
                /\ eop' = AllOnes32) =>
               (pc' = "fe_pointer" /\ rec'.i = 1)
          /\ (pc = "fe_pointer" /\ progress' = progress) =>
               /\ pc' = "done"
               /\ stop' = "error"
               /\ ret' \in DevReadResults \ {DC_STATUS_SUCCESS}
               /\ callbacks' = <<>>
               /\ eop' = eop
          /\ (pc = "fe_create" /\ pc' = "fe_walk") =>
               rbstream'.address = U32ToInt(eop)
          /\ pc \in {"fe_create", "done"} \cup WalkPcs =>
               (eop' = eop /\ memreads' = memreads)]_vars

\* the value at 0x2001 was 0xFFFFFFFF, the one at 0x3001 was the last
\* address of the ring, and two records were passed to the callback
C21_Witness ==
    /\ pc = "done"
    /\ memreads = <<12, 8193, 12289>>
    /\ eop = U32FromInt(device.layout.rb_profile_end - 1)
    /\ Len(callbacks) = 2
    /\ ret = DC_STATUS_SUCCESS

\* C22: during the walk every ring-stream read writes inside the scratch
\* buffer [0, ring length) and offset never underflows, whatever the header
\* fields are: the rest of a header is read at offset - headersize >= 0,
\* and the rest of a record of nbytes bytes is read at offset - nbytes >= 0
\* with a length nbytes - headersize >= 0, also when the 32-bit computation
\* of nbytes wraps; every record passed to the callback lies inside the
\* buffer.
C22_WalkStaysInBuffer ==
    /\ pc # "undefined"
    /\ offset >= 0
    /\ offset <= RingLen
    /\ pc = "fe_header" => rec.headersize <= offset
    /\ pc = "fe_payload" =>
          /\ ~U32Lt(U32FromInt(offset), rec.nbytes)
          /\ ~U32Lt(rec.nbytes, U32FromInt(rec.headersize))
    /\ \A i \in 1..Len(callbacks) :
          /\ callbacks[i].off >= 0
          /\ callbacks[i].off + callbacks[i].len <= RingLen

\* C16: in the progress events of one enumeration the current value
\* never decreases and never exceeds the maximum value of the same event:
\* the maximum is the ring length plus the bytes of the serial number and of
\* the pointers read, the current value the bytes read so far.
C16_ProgressMonotone ==
    /\ [](progress.current <= progress.maximum)
    /\ [](pc \in WalkPcs \/ (pc = "done" /\ stop \in CleanStops) =>
             /\ progress.maximum = RingLen + 4 * Len(memreads)
             /\ progress.current = progress.maximum - RingLen
                                     + RLen(buffer.bytes))
    /\ [][/\ progress'.current >= progress.current
          /\ progress'.maximum >= progress.maximum]_vars

C16_Witness ==
    /\ pc = "done"
    /\ stop = "start"
    /\ memreads = <<12, 8193, 12289>>
    /\ Len(callbacks) = 1
    /\ progress.current = progress.maximum
    /\ progress.maximum = RingLen + 12

(***************************************************************************)
(* mares_iconhd_get_model and mares_iconhd_device_open.                    *)
(***************************************************************************)
\* line 65: unsigned char name[16 + 1]; the comparison is over 16 bytes
NameLen == 16

\* a string as the initialiser of name[]: its characters, then NUL bytes
Name(chars) == chars \o [i \in 1..(NameLen - Len(chars)) |-> 0]

\* lines 126-138
models ==
    <<[id |-> MATRIX, \* "Matrix"
       name |-> Name(<<77, 97, 116, 114, 105, 120>>)],
      [id |-> SMART, \* "Smart"
       name |-> Name(<<83, 109, 97, 114, 116>>)],
      [id |-> SMARTAPNEA, \* "Smart Apnea"
       name |-> Name(<<83, 109, 97, 114, 116, 32, 65, 112, 110, 101, 97>>)],
      [id |-> ICONHD, \* "Icon HD"
       name |-> Name(<<73, 99, 111, 110, 32, 72, 68>>)],
      [id |-> ICONHDNET, \* "Icon AIR"
       name |-> Name(<<73, 99, 111, 110, 32, 65, 73, 82>>)],
      [id |-> PUCKPRO, \* "Puck Pro"
       name |-> Name(<<80, 117, 99, 107, 32, 80, 114, 111>>)],
      [id |-> NEMOWIDE2, \* "Nemo Wide 2"
       name |-> Name(<<78, 101, 109, 111, 32, 87, 105, 100, 101, 32, 50>>)],
      [id |-> PUCK2, \* "Puck 2"
       name |-> Name(<<80, 117, 99, 107, 32, 50>>)],
      [id |-> QUADAIR, \* "Quad Air"
       name |-> Name(<<81, 117, 97, 100, 32, 65, 105, 114>>)],
      [id |-> SMARTAIR, \* "Smart Air"
       name |-> Name(<<83, 109, 97, 114, 116, 32, 65, 105, 114>>)],
      [id |-> QUAD, \* "Quad"
       name |-> Name(<<81, 117, 97, 100>>)]>>

NameMatches_Prefix(field, name) ==
    \A i \in 1..NameLen : name[i] # 0 => field[i] = name[i]

\* line 144: memcmp (device->version + 0x46, models[i].name, 16) == 0
NameMatches(field, name) == field = name

\* lines 142-148: the loop over the table from entry i on
RECURSIVE ModelFrom(_, _)
ModelFrom(field, i) ==
    IF i > Len(models) THEN 0
    ELSE IF NameMatches(field, models[i].name) THEN models[i].id
    ELSE ModelFrom(field, i + 1)

\* lines 123-151; field is the 16 bytes at offset 0x46 of device->version
mares_iconhd_get_model(field) == ModelFrom(field, 1)

\* the product names a device can answer with: those of the table, and
\*   "Smar": a proper prefix of "Smart"
\*   "Puck": a proper prefix of "Puck 2"
\*   "Smart Airs": an extension of "Smart Air"
\*   "Quad Air 2": an extension of "Quad Air"
\*   "Genius": not in the table
\*   "": sixteen NUL bytes
\*   "Nemo Wide 2 plus": sixteen characters
\*   "Puck 2" followed by a NUL byte and a letter
VersionNames ==
    {models[i].name : i \in 1..Len(models)}
    \cup
    {Name(<<83, 109, 97, 114>>),
     Name(<<80, 117, 99, 107>>),
     Name(<<83, 109, 97, 114, 116, 32, 65, 105, 114, 115>>),
     Name(<<81, 117, 97, 100, 32, 65, 105, 114, 32, 50>>),
     Name(<<71, 101, 110, 105, 117, 115>>),
     Name(<<>>),
     Name(<<78, 101, 109, 111, 32, 87, 105, 100, 101, 32, 50, 32, 112, 108,
            117, 115>>),
     <<80, 117, 99, 107, 32, 50, 0, 120>> \o [i \in 1..8 |-> 0]}

\* device->layout = NULL
NoLayout == [memsize |-> 0, rb_profile_begin |-> 0, rb_profile_end |-> 0]

\* lines 329-339: the default values
DeviceDefaults ==
    [cache |-> [i \in 1..CacheSize |-> 0], available |-> 0, offset |-> 0,
     fingerprint |-> [i \in 1..FingerprintSize |-> 0],
     model |-> 0, layout |-> NoLayout, packetsize |-> 0]

\* before device_open: nothing allocated, *out not written
Closed(name) ==
    [name |-> name, version |-> [i \in 1..NameLen |-> 0], allocated |-> 0,
     deallocated |-> 0, out |-> "unset", status |-> DC_STATUS_SUCCESS]

\* lines 417-419: error_free
ErrorFree(ses, st) ==
    [ses EXCEPT !.deallocated = ses.deallocated + 1, !.status = st]

\* lines 314-327: the check of out, the allocation
device_open_call(outgiven, allocated) ==
    /\ pc = "open_idle"
    /\ IF ~outgiven
       THEN /\ session' = [session EXCEPT !.status = DC_STATUS_INVALIDARGS]
            /\ pc' = "open_done"
            /\ UNCHANGED device
       ELSE IF ~allocated
       THEN /\ session' = [session EXCEPT !.status = DC_STATUS_NOMEMORY]
            /\ pc' = "open_done"
            /\ UNCHANGED device
       ELSE /\ session' = [session EXCEPT !.allocated = session.allocated + 1]
            /\ device' = DeviceDefaults
            /\ pc' = "open_configure"
    /\ UNCHANGED <<ioLocals, enumVars, mem>>

\* lines 341-367: configure, set_timeout, set_dtr, set_rts
OpenSteps ==
    <<"open_configure", "open_set_timeout", "open_set_dtr", "open_set_rts",
      "open_version">>

device_open_setup ==
    /\ \E i \in 1..4 :
         /\ pc = OpenSteps[i]
         /\ \E st \in IoResults :
              IF st # DC_STATUS_SUCCESS
              THEN /\ session' = ErrorFree(session, st)
                   /\ pc' = "open_done"
              ELSE /\ pc' = OpenSteps[i + 1]
                   /\ UNCHANGED session
    /\ UNCHANGED <<device, ioLocals, enumVars, mem>>

\* lines 369-412: the purge, the version command, the model, the layout,
\* *out
device_open_version ==
    /\ pc = "open_version"
    /\ \E st \in TransferResults :
         IF st # DC_STATUS_SUCCESS
         THEN /\ session' = ErrorFree(session, st)
              /\ UNCHANGED device
         ELSE /\ session' = [session EXCEPT !.version = session.name,
                                            !.out = "device",
                                            !.status = DC_STATUS_SUCCESS]
              /\ device' = OpenedDevice(mares_iconhd_get_model(session.name))
    /\ pc' = "open_done"
    /\ UNCHANGED <<ioLocals, enumVars, mem>>

\* the caller goes on with the session device_open returned
device_opened ==
    /\ pc = "open_done"
    /\ session.status = DC_STATUS_SUCCESS
    /\ session.out = "device"
    /\ pc' = "fe_idle"
    /\ UNCHANGED <<device, ioLocals, enumVars, openVars>>

(***************************************************************************)
(* SpecOpen: device_open with a device of any product name attached.       *)
(***************************************************************************)
InitOpen ==
    /\ transport = DC_TRANSPORT_SERIAL
    /\ IoLocalsInit
    /\ pc = "open_idle"
    /\ device = DeviceDefaults
    /\ EnumIdle
    /\ mem = MemIdle
    /\ \E name \in VersionNames : session = Closed(name)

NextOpen ==
    \/ \E outgiven \in BOOLEAN, allocated \in BOOLEAN :
          device_open_call(outgiven, allocated)
    \/ device_open_setup
    \/ device_open_version

SpecOpen == InitOpen /\ [][NextOpen]_vars

\* the entries of the table whose 16 name bytes are those of the version
Hits == {i \in 1..Len(models) : session.version = models[i].name}

\* C14: the model is the id of the first table entry whose 16 NUL-padded
\* name bytes equal the 16 bytes at offset 0x46 of the version, and 0 when
\* there is none: "Puck 2" gives the nemowide2 layout and packet size 256,
\* "Smart" and "Smart Air" give their own entries, an unrecognized name
\* gives model 0, the iconhd layout and packet size 4096.
C14_ModelDetection ==
    (pc = "open_done" /\ session.status = DC_STATUS_SUCCESS) =>
        /\ session.version = session.name
        /\ device.model = IF Hits = {} THEN 0
                          ELSE models[CHOOSE i \in Hits :
                                        \A j \in Hits : i <= j].id
        /\ Hits = {} =>
              /\ device.model = 0
              /\ device.layout = mares_iconhd_layout
              /\ device.packetsize = 4096
        /\ session.version = Name(<<80, 117, 99, 107, 32, 50>>) =>
              /\ device.model = PUCK2
              /\ device.layout = mares_nemowide2_layout
              /\ device.packetsize = 256
        /\ session.version = Name(<<83, 109, 97, 114, 116>>) =>
              device.model = SMART
        /\ session.version = Name(<<83, 109, 97, 114, 116, 32, 65, 105, 114>>)
              => device.model = SMARTAIR
        /\ session.version \notin {models[i].name : i \in 1..Len(models)} =>
              device.model = 0

C14_Witness ==
    /\ pc = "open_done"
    /\ session.status = DC_STATUS_SUCCESS
    /\ session.version = Name(<<80, 117, 99, 107, 32, 50>>)
    /\ device.model = PUCK2
    /\ device.packetsize = 256

(***************************************************************************)
(* SpecSession: device_open, then set_fingerprint calls and one            *)
(* enumeration with the session it returned.                               *)
(***************************************************************************)
\* "Matrix" and "Smart"
SessionNames ==
    {Name(<<77, 97, 116, 114, 105, 120>>), Name(<<83, 109, 97, 114, 116>>)}

InitSession ==
    /\ transport = DC_TRANSPORT_SERIAL
    /\ IoLocalsInit
    /\ pc = "open_idle"
    /\ device = DeviceDefaults
    /\ EnumIdle
    /\ mem = MemIdle
    /\ \E name \in SessionNames : session = Closed(name)

NextSession ==
    \/ NextOpen
    \/ device_opened
    \/ NextEnum

SpecSession == InitSession /\ [][NextSession]_vars

\* C15: whenever the enumeration returns after the ring stream and the
\* scratch buffer were acquired, both have been released, once; when the
\* allocation of the scratch buffer fails, the ring stream is released and
\* NoMemory is returned; when device_open fails after the session was
\* allocated, the session is deallocated and *out is left unset.
C15_ResourcesReleased ==
    /\ [](pc \in WalkPcs =>
             (rbstream.state = "open" /\ buffer.state = "allocated"))
    /\ [](pc = "done" =>
             /\ rbstream.state \in {"none", "freed"}
             /\ buffer.state \in {"none", "freed"}
             /\ buffer.state = "freed" => rbstream.state = "freed")
    /\ [][(pc \in WalkPcs /\ pc' = "done") =>
             (rbstream'.state = "freed" /\ buffer'.state = "freed")]_vars
    /\ [][(pc = "fe_create" /\ pc' = "done") =>
             /\ buffer'.state = "none"
             /\ rbstream'.state \in {"none", "freed"}
             /\ rbstream'.state = "freed" => ret' = DC_STATUS_NOMEMORY]_vars
    /\ [][(rbstream.state = "freed" => rbstream'.state = "freed")
            /\ (buffer.state = "freed" => buffer'.state = "freed")]_vars
    /\ []((pc = "open_done" /\ session.status # DC_STATUS_SUCCESS) =>
             /\ session.deallocated = session.allocated
             /\ session.out = "unset")
    /\ [](session.out = "device" =>
             (session.allocated = 1 /\ session.deallocated = 0))
    /\ [](session.deallocated <= session.allocated)

C15_Witness ==
    /\ pc = "done"
    /\ stop = "error"
    /\ ret = DC_STATUS_IO
    /\ Len(callbacks) = 1
    /\ rbstream.state = "freed"
    /\ buffer.state = "freed"
    /\ session.out = "device"

(***************************************************************************)
(* SpecMem: memory reads and dumps.                                        *)
(***************************************************************************)
InitMem ==
    /\ transport = DC_TRANSPORT_SERIAL
    /\ IoLocalsInit
    /\ pc = "mem_idle"
    /\ \E m \in MemModels : device = OpenedDevice(m)
    /\ EnumIdle
    /\ OpenIdle

NextMem ==
    \/ \E a \in MemAddresses, n \in MemSizes : device_read_call(a, n)
    \/ device_read_loop
    \/ device_dump_call
    \/ device_dump_read_loop
    \/ device_read_return
    \/ device_mem_again

SpecMem == InitMem /\ [][NextMem]_vars

\* C13: the memory-read commands of one call are ascending and contiguous
\* from the requested address, none is longer than the packet size of the
\* session, only the last one may be shorter, and on success they cover
\* exactly [address, address + size); a full dump resizes the buffer to the
\* memory size of the layout before the first command and covers the whole
\* memory; after a failed transfer no command is sent and its status is
\* what the call returns.
C13_ChunkedRead ==
    LET log == mem.log
        from == IF mem.op = "dump" THEN 0 ELSE mem.start
        upto == IF mem.op = "dump" THEN device.layout.memsize
                ELSE mem.start + mem.size
    IN  /\ log.contiguous
        /\ log.count > 0 => (log.first = from /\ log.end <= upto)
        /\ log.longest <= device.packetsize
        /\ log.short <= 1
        /\ (log.short = 1 /\ ~log.failed) => log.end = upto
        /\ ~log.afterfailure
        /\ (mem.op = "dump" /\ log.count > 0) =>
               mem.bufsize = device.layout.memsize
        /\ (pc = "mem_done" /\ mem.rc = DC_STATUS_SUCCESS) =>
               /\ ~log.failed
               /\ upto > from => (log.count > 0 /\ log.end = upto)
               /\ upto = from => log.count = 0
        /\ (pc = "mem_done" /\ log.failed) =>
               mem.rc \in TransferResults \ {DC_STATUS_SUCCESS}

C13_Witness ==
    /\ pc = "mem_done"
    /\ mem.op = "read"
    /\ mem.start = 8193
    /\ mem.size = 8193
    /\ device.packetsize = 4096
    /\ mem.log.count = 3
    /\ mem.log.short = 1
    /\ mem.rc = DC_STATUS_SUCCESS

(***************************************************************************)
(* SpecXfer: transfer() over either transport.                             *)
(***************************************************************************)
CSizes == {2, 10}
ASizes == 0..MaxASize

InitXfer ==
    /\ transport \in {DC_TRANSPORT_BLE, DC_TRANSPORT_SERIAL}
    /\ IoLocalsInit
    /\ pc = "idle"
    /\ device = OpenedDevice(ICONHD)
    /\ EnumIdle
    /\ OpenIdle

NextXfer ==
    \/ \E c \in CSizes, a \in ASizes : transfer_call(c, a)
    \/ packet_enter
    \/ mares_iconhd_write_iter
    \/ packet_header_written
    \/ mares_iconhd_read_iter
    \/ packet_header_read
    \/ packet_command_written
    \/ packet_answer_read
    \/ packet_trailer_read
    \/ transfer_loop

SpecXfer == InitXfer /\ [][NextXfer]_vars

(***************************************************************************)
(* Claims about transfer() and packet(), checked under SpecXfer.           *)
(***************************************************************************)
Transient == {DC_STATUS_PROTOCOL, DC_STATUS_TIMEOUT}

\* C1: one transfer() makes at most 5 packet() attempts; a further attempt
\* is only made right after a Protocol/Timeout failure; transfer() returns
\* Success as soon as an attempt succeeds, and a Protocol/Timeout status
\* is returned, unchanged, after the 5th failed attempt and only then.
C1_AtMostFiveAttempts ==
    /\ [](attempts <= 5)
    /\ [](pc = "done" =>
            /\ result = rc
            /\ attempts \in 1..5
            /\ (rc \in Transient => attempts = 5))
    /\ [][/\ (attempts' = attempts + 1)
               => (attempts = 0 \/ (pc = "packet" /\ rc \in Transient))
          /\ (pc = "packet_ret" /\ rc = DC_STATUS_SUCCESS)
               => (pc' = "done" /\ result' = DC_STATUS_SUCCESS)
          /\ (pc = "packet_ret" /\ rc \in Transient /\ attempts = 5)
               => (pc' = "done" /\ result' = rc)]_vars

\* four attempts failed with Protocol, the fifth timed out, and
\* transfer() gave up with Timeout
C1_Witness ==
    /\ pc = "done"
    /\ attempts = 5
    /\ result = DC_STATUS_TIMEOUT
    /\ purges = 4

\* C2: when a packet() attempt fails with a status other than Protocol or
\* Timeout, transfer() returns that status at once: no further attempt
\* and no purge follow, whatever the retries left.
C2_NoRetryOnOtherFailure ==
    [][(pc = "packet_ret" /\ rc \notin {DC_STATUS_SUCCESS,
                                         DC_STATUS_PROTOCOL,
                                         DC_STATUS_TIMEOUT})
          => /\ pc' = "done"
             /\ result' = rc
             /\ purges' = purges
             /\ attempts' = attempts]_vars

\* an Io failure of the third attempt ended the transfer
C2_Witness ==
    /\ pc = "done"
    /\ attempts = 3
    /\ result = DC_STATUS_IO
    /\ purges = 2
    /\ nretries = 2

\* C3: when the cancellation poll at the start of a packet exchange (the
\* first attempt or a retry) answers "cancelled", packet() returns
\* Cancelled without a transport call, and transfer() returns Cancelled
\* without a further attempt.
C3_CancelledBeforeIo ==
    [][/\ (pc = "packet" /\ cancelled')
            => (pc' = "packet_ret" /\ rc' = DC_STATUS_CANCELLED /\ iocalls' = 0)
       /\ (pc = "packet_ret" /\ rc = DC_STATUS_CANCELLED)
            => /\ iocalls = 0
               /\ pc' = "done"
               /\ result' = DC_STATUS_CANCELLED
               /\ attempts' = attempts
               /\ purges' = purges]_vars

\* a cancellation seen at the third attempt ended the transfer
C3_Witness ==
    /\ pc = "done"
    /\ result = DC_STATUS_CANCELLED
    /\ attempts = 3
    /\ iocalls = 0

\* C4: packet() returns Protocol when the header byte is not 0xAA and when
\* the trailer byte is not 0xEA, for every command and answer size; it
\* returns Success only after it received 0xAA, asize answer bytes and 0xEA.
C4_FramingBytes ==
    /\ []((pc = "packet_ret" /\ rc = DC_STATUS_SUCCESS)
            => /\ Len(out) = asize + 2
               /\ out[1] = 170
               /\ out[Len(out)] = 234
               /\ answer = SubSeq(out, 2, asize + 1))
    /\ [][/\ (pc = "read_hdr" /\ nbytes >= size /\ data[1] # 170)
               => (pc' = "packet_ret" /\ rc' = DC_STATUS_PROTOCOL)
          /\ (pc = "read_trl" /\ nbytes >= size /\ data[1] # 234)
               => (pc' = "packet_ret" /\ rc' = DC_STATUS_PROTOCOL)]_vars

\* a 10-byte command with a 1-byte answer failed on its trailer byte
C4_Witness ==
    /\ pc = "packet_ret"
    /\ rc = DC_STATUS_PROTOCOL
    /\ csize = 10
    /\ asize = 1
    /\ Len(out) = 3
    /\ out[1] = 170
    /\ out[3] # 234

\* C18: when transfer() retries after a Protocol or Timeout failure, no
\* byte received before the purge is delivered to the retried exchange as
\* its header, answer or trailer: no byte that the receive cache held at
\* the purge is handed out by a read of the retried exchange.
C18_PurgeDiscardsCache ==
    purges > 0 => stale.used = 0

\* C20: one packet() exchange performs its transport operations in the
\* order: write 2 command bytes, read 1 header byte, write the other
\* csize - 2 command bytes (only when csize > 2), read asize answer bytes,
\* read 1 trailer byte.  The rest of the command is written and the answer
\* is read only after the header byte 0xAA was received in this exchange,
\* and the first step that fails ends the exchange with its status.
C20_ExchangeOrder ==
    /\ [](pc \in {"write_cmd", "read_ans", "read_trl"} =>
             (Len(out) >= 1 /\ out[1] = 170))
    /\ [](pc = "read_trl" => Len(out) = 1 + asize + nbytes)
    /\ [][/\ (pc' = "write_hdr" /\ pc # "write_hdr") =>
               (pc = "packet" /\ size' = 2 /\ nbytes' = 0)
          /\ (pc' = "read_hdr" /\ pc # "read_hdr") =>
               (pc = "write_hdr" /\ nbytes = 2 /\ size' = 1 /\ nbytes' = 0)
          /\ (pc' = "write_cmd" /\ pc # "write_cmd") =>
               /\ pc = "read_hdr"
               /\ data = <<170>>
               /\ csize > 2
               /\ size' = csize - 2
               /\ nbytes' = 0
          /\ (pc' = "read_ans" /\ pc # "read_ans") =>
               /\ \/ pc = "read_hdr" /\ data = <<170>> /\ csize = 2
                  \/ pc = "write_cmd" /\ nbytes = csize - 2 /\ csize > 2
               /\ size' = asize
               /\ nbytes' = 0
          /\ (pc' = "read_trl" /\ pc # "read_trl") =>
               /\ pc = "read_ans"
               /\ Len(data) = asize
               /\ size' = 1
               /\ nbytes' = 0
          /\ (pc' = "packet_ret" /\ pc # "packet_ret") =>
               \/ pc = "packet" /\ rc' = DC_STATUS_CANCELLED
               \/ /\ pc \in WritePcs \cup {"read_hdr", "read_ans", "read_trl"}
                  /\ nbytes < size
                  /\ rc' \in IoFailures
               \/ pc = "read_hdr" /\ data[1] # 170
                                  /\ rc' = DC_STATUS_PROTOCOL
               \/ pc = "read_trl" /\ data[1] # 234
                                  /\ rc' = DC_STATUS_PROTOCOL
               \/ pc = "read_trl" /\ data[1] = 234
                                  /\ rc' = DC_STATUS_SUCCESS
          /\ (pc \in WritePcs \cup ReadPcs /\ nbytes < size
                /\ pc' = pc) => nbytes' >= nbytes]_vars

\* an exchange of a 10-byte command with a 1-byte answer went through all
\* five steps
C20_Witness ==
    /\ pc = "packet_ret"
    /\ rc = DC_STATUS_SUCCESS
    /\ csize = 10
    /\ asize = 1
    /\ out = <<170, 0, 234>>

\* transfer() with every step that is enabled eventually taken: each
\* transport call returns, the loops go on
SpecXferLive == SpecXfer /\ WF_vars(NextXfer)

\* C23: every adapter read and write call terminates when each transport
\* call returns, also when the transport reports success with 0 bytes
\* transferred; hence every transfer() ends.
C23_AdapterCallsTerminate ==
    /\ \A p \in WritePcs \cup {"read_hdr", "read_ans", "read_trl"} :
          (pc = p) ~> (pc # p)
    /\ (pc = "packet") ~> (pc = "done")

(***************************************************************************)
(* SpecRead: the adapter read on a frame transport, asked for n bytes at a *)
(* time as packet() does for its answers (line 269).                       *)
(***************************************************************************)
ReadSizes == {1, 19, 20, 21, 41}

\* a caller asks the adapter for n bytes
read_call(n) ==
    /\ pc = "req_idle"
    /\ UNCHANGED <<enumVars, openVars, spins>>
    /\ StartAdapter("read_req", n)
    /\ rc' = DC_STATUS_SUCCESS
    /\ iocalls' = 0
    /\ UNCHANGED <<transport, device, cancelled, csize, asize, nretries,
                   answer, result, attempts, purges, stale, wire, out>>

\* line 196: the loop is over, the adapter returns
read_return ==
    /\ pc = "read_req"
    /\ UNCHANGED <<enumVars, openVars, spins>>
    /\ nbytes >= size
    /\ pc' = "req_idle"
    /\ UNCHANGED <<transport, device, cancelled, csize, asize, nretries, rc,
                   size, nbytes, data, answer, result, attempts, purges,
                   stale,
                   iocalls, wire, out>>

InitRead ==
    /\ transport = DC_TRANSPORT_BLE
    /\ IoLocalsInit
    /\ pc = "req_idle"
    /\ device = OpenedDevice(ICONHD)
    /\ EnumIdle
    /\ OpenIdle

NextRead ==
    \/ \E n \in ReadSizes : read_call(n)
    \/ mares_iconhd_read_iter
    \/ read_return

SpecRead == InitRead /\ [][NextRead]_vars

\* C5: on a frame transport with frames of at most 20 bytes, the bytes the
\* adapter hands out, concatenated over all requests, are a prefix of the
\* concatenated frames: every received byte is handed out once, in order,
\* however the requests straddle the frames; what was received and not
\* yet handed out is what the cache cursors hold.
C5_ChunkBoundaryIndependence ==
    /\ Len(out) <= Len(wire)
    /\ out = SubSeq(wire, 1, Len(out))
    /\ wire = out \o Pending(device)
    /\ \A i \in 1..Len(out) : out[i] = Pattern(i - 1)
    /\ (pc = "req_idle" /\ rc = DC_STATUS_SUCCESS /\ size > 0)
         => data = SubSeq(wire, Len(out) - size + 1, Len(out))

\* a request of 41 bytes that began inside a frame was served from three
\* more frames and left bytes in the cache
C5_Witness ==
    /\ pc = "req_idle"
    /\ rc = DC_STATUS_SUCCESS
    /\ size = 41
    /\ Len(data) = 41
    /\ Len(out) = 61
    /\ Len(wire) > Len(out)

\* C17: the cursors of the receive cache always satisfy
\* offset + available <= 20, the capacity of the cache, and neither is
\* negative: after the open, after every refill with a frame of any
\* delivered length, after every copy out of the cache, after a failed
\* read and after the request that follows it.
C17_CacheCursorsInBounds ==
    /\ device.offset >= 0
    /\ device.available >= 0
    /\ device.offset + device.available <= CacheSize

\* a read that found the cache used up to its last byte failed, and the
\* cursors stayed at the end of the cache
C17_Witness ==
    /\ pc = "req_idle"
    /\ rc = DC_STATUS_TIMEOUT
    /\ size = 21
    /\ nbytes = 1
    /\ device.offset = CacheSize
    /\ device.available = 0
    /\ Len(wire) = CacheSize

=============================================================================
